---- MODULE Spec2Model ----
(***************************************************************************)
(* Model of notebooks/benchmark_single_gpu_mixtral.py: the Mixtral         *)
(* generation loop (custom_generate), the routing-pattern capture          *)
(* (get_pattern_matrices), the pattern replay driver                       *)
(* (run_benchmark_with_patterns / custom_generate_with_fixed_data) and the *)
(* nucleus filter (top_p_filtering); and of the generation loop of         *)
(* notebooks/benchmark_single_gpu_switch.py (its run_benchmark and         *)
(* custom_generate), whose states have a pc that starts with sw_.          *)
(*                                                                         *)
(* Conventions.  Python tensors and lists are TLA+ sequences, so Python    *)
(* index k is TLA+ index k+1; batch_idx, token_index, record keys, token   *)
(* positions and expert indices keep their 0-based Python values.          *)
(* A logit x is carried as the positive integer weight exp(x): softmax of  *)
(* a row w is w[i] / Sum(w), ordering by logit is ordering by weight, and  *)
(* the logit -inf is the weight 0.                                         *)
(***************************************************************************)
EXTENDS Integers, Sequences, FiniteSets, TLC

\* ---------------------------------------------------------------- bounds
MaxSamples == 3        \* prompts in the dataset (5000 in main)
BatchSize == 2         \* batch_size of main (16 there), scaled down
MaxPromptLen == 2      \* longest tokenized prompt
MaxNewTokens == 2      \* largest max_new_tokens explored (32 in main)
MaxLayers == 2         \* largest number of MoE layers of the model
NumExperts == 3        \* experts per layer (8 in Mixtral)
MaxWeight == 3         \* largest unnormalised probability weight of a logit
TopPDen == 4           \* top_p ranges over k/TopPDen, k in 1..TopPDen

\* ------------------------------------------------------------ vocabulary
Bos == "<s>"
Eos == "</s>"          \* also the pad token (tokenizer.pad_token = eos_token)
Word == "w"
VocabSeq == <<Eos, Word>>   \* column j of a logits row is token VocabSeq[j]
None == "None"

VARIABLES
    task,                \* args.task
    pc,                  \* position of the control thread
    data,                \* the sorted dataset: data[g] = token length of prompt g
    max_new_tokens,
    num_layers,          \* len(model.model.layers)
    batch_idx,           \* enumerate(batches) index of the running batch
    predictor,           \* custom_generate's predictor argument
    generated_token_ids, \* locals of the running generation loop
    crt_tokens,
    attention_mask,
    router_logits,
    it,                  \* completed iterations of the running loop
    past_len,            \* positions held by past_key_values
    next_token_id,       \* last multinomial draw
    pattern_matrix,      \* replay: pattern handed to prefetch in this step
    calls,               \* calls made by the running loop, in program order
    ret,                 \* value returned by the last generation loop
    pattern_matrices,    \* the mapping built by get_pattern_matrices / loaded by task 2
    file,                \* contents of pattern_matrices.pt
    fileOrigin,          \* who wrote the file: "none", "capture" or "external"
    tp                   \* top_p_filtering call: its arguments and result

vars == <<task, pc, data, max_new_tokens, num_layers, batch_idx, predictor,
          generated_token_ids, crt_tokens, attention_mask, router_logits, it,
          past_len, next_token_id, pattern_matrix, calls, ret,
          pattern_matrices, file, fileOrigin, tp>>

\* --------------------------------------------------------------- helpers
Min(a, b) == IF a < b THEN a ELSE b
Max(a, b) == IF a > b THEN a ELSE b

RECURSIVE SumSeq(_)
SumSeq(s) == IF s = <<>> THEN 0 ELSE Head(s) + SumSeq(Tail(s))

RECURSIVE Concat(_)
\* torch.cat / list concatenation of a sequence of sequences
Concat(ss) == IF ss = <<>> THEN <<>> ELSE Head(ss) \o Concat(Tail(ss))

\* Python s[a:b] for 0 <= a, with b clamped to len(s)
PySlice(s, a, b) == SubSeq(s, a + 1, Min(b, Len(s)))

\* Python s[a:] for any integer a: a negative a counts from the end, and
\* -1*0 is 0, so s[-0:] is the whole of s
PySliceFrom(s, a) ==
    LET start == IF a < 0 THEN Max(Len(s) + a, 0) ELSE Min(a, Len(s))
    IN  SubSeq(s, start + 1, Len(s))

\* x[mask == 1]
Masked(x, mask) == SelectSeq([k \in 1..Len(x) |-> <<x[k], mask[k]>>],
                             LAMBDA e : e[2] = 1)

Column(pairs) == [k \in 1..Len(pairs) |-> pairs[k][1]]

CountZeros(mask) == Cardinality({k \in 1..Len(mask) : mask[k] = 0})

\* ------------------------------------------------------- top_p_filtering
NegInf == 0            \* float('-inf') as a weight: exp(-inf)
TopPMaxLen == 3        \* longest logits row given to top_p_filtering alone
DefaultTopPNum == 9    \* top_p=0.9 of custom_generate, as DefaultTopPNum/DefaultTopPDen
DefaultTopPDen == 10

IndexOrders(n) == {p \in [1..n -> 1..n] : \A a, b \in 1..n : p[a] = p[b] => a = b}

\* the index orders torch.sort(logits, descending=True) may return (the sort
\* is not stable, so equal logits come in either order)
SortedIndices(logits) ==
    {p \in IndexOrders(Len(logits)) :
        \A j \in 1..(Len(logits) - 1) : logits[p[j]] >= logits[p[j + 1]]}

\* torch.cumsum(softmax(sorted_logits)) as the numerators over Sum(logits)
CumulativeWeights(sorted_logits) ==
    [j \in 1..Len(sorted_logits) |-> SumSeq(SubSeq(sorted_logits, 1, j))]

\* cumulative_probs > top_p, for top_p = num/den, in exact arithmetic
AboveThreshold_ge(cum, total, num, den) == cum * den >= num * total
\* the comparison turned round: cumulative_probs < top_p
AboveThreshold_lt(cum, total, num, den) == cum * den < num * total
AboveThreshold(cum, total, num, den) == cum * den > num * total

\* without the shift every token above the threshold is removed
ShiftRight_none(remove) == remove
\* sorted_indices_to_remove[..., 1:] = sorted_indices_to_remove[..., :-1];
\* sorted_indices_to_remove[..., 0] = 0
ShiftRight(remove) ==
    [j \in 1..Len(remove) |-> IF j = 1 THEN FALSE ELSE remove[j - 1]]

\* one row of top_p_filtering(logits, top_p) with top_p = num/den, given the
\* order sorted_indices that torch.sort returned
TopPFiltering(logits, num, den, sorted_indices) ==
    LET n == Len(logits)
        sorted_logits == [j \in 1..n |-> logits[sorted_indices[j]]]
        cumulative == CumulativeWeights(sorted_logits)
        total == SumSeq(logits)
        above == [j \in 1..n |-> AboveThreshold(cumulative[j], total, num, den)]
        sorted_indices_to_remove == ShiftRight(above)
        \* scatter(1, sorted_indices, sorted_indices_to_remove)
        indices_to_remove ==
            [i \in 1..n |->
                LET j == CHOOSE k \in 1..n : sorted_indices[k] = i
                IN  sorted_indices_to_remove[j]]
    IN  [i \in 1..n |-> IF indices_to_remove[i] THEN NegInf ELSE logits[i]]

\* the logits rows a forward pass may put out for the vocabulary
LogitRows == [1..Len(VocabSeq) -> 1..MaxWeight]

\* the tokens torch.multinomial(softmax(filtered_logits)) can draw in
\* custom_generate: any token that is finite after top_p_filtering of some row
Samplable ==
    {VocabSeq[j] : j \in
        {i \in 1..Len(VocabSeq) :
            \E row \in LogitRows : \E p \in SortedIndices(row) :
                TopPFiltering(row, DefaultTopPNum, DefaultTopPDen, p)[i] # NegInf}}

\* ------------------------------------------------- dataset and tokenizer
\* data = np.array(sorted(data, key=len)): nondecreasing prompt lengths
Datasets ==
    {d \in UNION {[1..n -> 1..MaxPromptLen] : n \in 1..MaxSamples} :
        \A g \in 1..(Len(d) - 1) : d[g] <= d[g + 1]}

\* batches = [data[i:i + batch_size] for i in range(0, len(data), batch_size)]:
\* batch b (0-based) as the sequence of the dataset positions it holds
NumBatches(n) == (n + BatchSize - 1) \div BatchSize
Batch(b) == [j \in 1..Min(BatchSize, Len(data) - b * BatchSize) |-> b * BatchSize + j]

\* the token ids the tokenizer gives prompt g: Bos, then words
PromptTokens(g) == [k \in 1..data[g] |-> IF k = 1 THEN Bos ELSE Word]

\* tokenizer(batch, padding=True) with padding_side = 'left' and pad = eos
Tokenize(batch) ==
    LET L == CHOOSE m \in 0..MaxPromptLen + 1 :
                 /\ \A i \in 1..Len(batch) : data[batch[i]] <= m
                 /\ \E i \in 1..Len(batch) : data[batch[i]] = m
        pad(i) == [k \in 1..(L - data[batch[i]]) |-> Eos]
        zeros(i) == [k \in 1..(L - data[batch[i]]) |-> 0]
        ones(i) == [k \in 1..data[batch[i]] |-> 1]
    IN  [input_ids |-> [i \in 1..Len(batch) |-> pad(i) \o PromptTokens(batch[i])],
         attention_mask |-> [i \in 1..Len(batch) |-> zeros(i) \o ones(i)]]

\* ------------------------------------------------------ the model forward
\* The gate of layer l (0-based) for the token of dataset sample g at padded
\* position p (0-based): one logit per expert, all different.  The gate is a
\* fixed function of the model's weights; which function is immaterial.
GateLogits(g, p, l) == [e \in 1..NumExperts |-> (e + g + 2 * p + 3 * l) % NumExperts]

\* outputs.router_logits of model(input_ids=tokens, past_key_values=...):
\* per layer one row per fed token, flattened sample-major
\* (hidden_states.view(-1, hidden_dim) in the MoE block).  src names the
\* sample and position the row was computed for; it is not part of the tensor.
ModelRouterLogits(samples, tokens, past, layers) ==
    LET q == Len(tokens[1])
    IN  [l \in 1..layers |->
            [r \in 1..(Len(tokens) * q) |->
                LET i == ((r - 1) \div q) + 1
                    p == past + ((r - 1) % q)
                IN  [src |-> <<samples[i], p>>,
                     logits |-> GateLogits(samples[i], p, l - 1)]]]

\* logits.topk(2, dim=-1)[1]: the 0-based indices of the two largest logits
TopK2(row) ==
    LET first == CHOOSE e \in 1..NumExperts :
                     \A f \in 1..NumExperts : row.logits[e] >= row.logits[f]
        second == CHOOSE e \in (1..NumExperts) \ {first} :
                     \A f \in (1..NumExperts) \ {first} : row.logits[e] >= row.logits[f]
    IN  [src |-> row.src, top |-> <<first - 1, second - 1>>]

\* the event a call leaves in calls
Call(op, step, layer, arg) == [op |-> op, step |-> step, layer |-> layer, arg |-> arg]

\* ------------------------------------------------------- custom_generate
Idle == [pc |-> "idle"]

\* for _ in range(max_new_tokens+1)
GenerateIterations_twoMore(n) == n + 2
GenerateIterations(n) == n + 1

\* torch.cat([attention_mask, torch.ones((batch, 1))], dim=-1)
ExtendMask_zero(mask) == [i \in 1..Len(mask) |-> Append(mask[i], 0)]
ExtendMask(mask) == [i \in 1..Len(mask) |-> Append(mask[i], 1)]

\* prefetch_experts_by_predictor: one prefetch per layer, in layer order;
\* custom_generate calls it only when predictor is not None
PredictorPrefetchCalls(step) ==
    IF predictor = None THEN <<>>
    ELSE [l \in 1..num_layers |-> Call("prefetch", step, l - 1, predictor)]

\* merged_router_logits: per layer, torch.cat over the steps in step order
MergeRouterLogits(logs) ==
    [l \in 1..Len(logs[1]) |-> Concat([s \in 1..Len(logs) |-> logs[s][l]])]

\* run_benchmark / get_pattern_matrices / run_benchmark_with_predictor, loop
\* head: tokenize the batch and enter custom_generate(input_ids,
\* attention_mask, model, max_new_tokens, predictor=None); the last of the
\* three passes predictor=None too and never reads its own predictor argument
CallCustomGenerate ==
    /\ pc = "batch"
    /\ task \in {0, 1, 3}
    /\ batch_idx < NumBatches(Len(data))
    /\ LET d == Tokenize(Batch(batch_idx))
       IN  /\ generated_token_ids' = d.input_ids
           /\ crt_tokens' = d.input_ids
           /\ attention_mask' = d.attention_mask
    /\ router_logits' = <<>>
    /\ predictor' = None
    /\ it' = 0
    /\ past_len' = 0
    /\ calls' = <<>>
    /\ pc' = "gen_loop"
    /\ UNCHANGED <<task, data, max_new_tokens, num_layers, batch_idx, next_token_id,
                   pattern_matrix, ret, pattern_matrices, file, fileOrigin, tp>>

\* one iteration of the loop of custom_generate: the optional prefetch, the
\* forward pass, the draw, and the growth of the sequence state
GenStep ==
    /\ pc = "gen_loop"
    /\ it < GenerateIterations(max_new_tokens)
    /\ \E draw \in [1..Len(crt_tokens) -> Samplable] :
        /\ calls' = calls \o PredictorPrefetchCalls(it)
                          \o <<Call("forward", it, -1,
                                    [input_ids |-> crt_tokens,
                                     attention_mask |-> attention_mask])>>
        /\ past_len' = past_len + Len(crt_tokens[1])
        /\ next_token_id' = draw
        /\ crt_tokens' = [i \in 1..Len(crt_tokens) |-> <<draw[i]>>]
        /\ generated_token_ids' =
               [i \in 1..Len(crt_tokens) |-> Append(generated_token_ids[i], draw[i])]
        /\ attention_mask' = ExtendMask(attention_mask)
        /\ router_logits' =
               Append(router_logits,
                      ModelRouterLogits(Batch(batch_idx), crt_tokens, past_len, num_layers))
    /\ it' = it + 1
    /\ UNCHANGED <<task, pc, data, max_new_tokens, num_layers, batch_idx, predictor,
                   pattern_matrix, ret, pattern_matrices, file, fileOrigin, tp>>

\* the loop is over: merge the routing logs and return; the locals of the
\* call end with it (calls keeps the record of what the call did)
GenReturn ==
    /\ pc = "gen_loop"
    /\ it >= GenerateIterations(max_new_tokens)
    /\ ret' = [generated_token_ids |-> generated_token_ids,
               router_logits |-> MergeRouterLogits(router_logits)]
    /\ generated_token_ids' = None
    /\ crt_tokens' = None
    /\ attention_mask' = None
    /\ router_logits' = <<>>
    /\ it' = 0
    /\ past_len' = 0
    /\ next_token_id' = None
    /\ pc' = "returned"
    /\ UNCHANGED <<task, data, max_new_tokens, num_layers, batch_idx, predictor,
                   pattern_matrix, calls, pattern_matrices, file, fileOrigin, tp>>

\* run_benchmark and run_benchmark_with_predictor: the rest of the loop body
\* only takes times
BenchmarkNextBatch ==
    /\ pc = "returned"
    /\ task \in {0, 3}
    /\ batch_idx' = batch_idx + 1
    /\ ret' = None
    /\ calls' = <<>>
    /\ pc' = IF batch_idx + 1 < NumBatches(Len(data)) THEN "batch" ELSE "done"
    /\ UNCHANGED <<task, data, max_new_tokens, num_layers, predictor,
                   generated_token_ids, crt_tokens, attention_mask, router_logits, it,
                   past_len, next_token_id, pattern_matrix,
                   pattern_matrices, file, fileOrigin, tp>>

\* -------------------------------------------------- get_pattern_matrices
\* lines 208-226 for one batch: the records written for its samples, keyed by
\* len(batch)*batch_idx+i.  text is the batch (dataset positions), d the
\* tokenizer output, out the pair custom_generate returned.
BatchPatternRecords(text, d, out, b_idx, new_tokens) ==
    LET generated == out.generated_token_ids
        merged == out.router_logits
        bs == Len(generated)
        seq_len == Len(generated[1])
        layers == Len(merged)
        \* torch.stack(router_logits, dim=-2): (num_tokens, num_layers, num_experts)
        stacked == [r \in 1..Len(merged[1]) |-> [l \in 1..layers |-> merged[l][r]]]
        \* .view(bs, seq_len-1, num_layers, -1)
        viewed == [i \in 1..bs |->
                      [p \in 1..(seq_len - 1) |-> stacked[(i - 1) * (seq_len - 1) + p]]]
        \* .topk(2, dim=-1)[1] and .permute(0, 2, 1, 3)
        token_router_indices ==
            [i \in 1..bs |->
                [l \in 1..layers |->
                    [p \in 1..(seq_len - 1) |-> TopK2(viewed[i][p][l])]]]
        pad_len(i) == CountZeros(d.attention_mask[i])
        decode_start_idx(i) == Len(d.input_ids[i])
        record(i) ==
            [prompt_text |-> text[i],
             prompt_ids |-> Column(Masked(d.input_ids[i], d.attention_mask[i])),
             decode_ids |-> PySliceFrom(generated[i], -1 * new_tokens),
             prompt_pattern |->
                 [l \in 1..layers |->
                     PySlice(token_router_indices[i][l], pad_len(i), decode_start_idx(i))],
             decode_pattern |->
                 [l \in 1..layers |->
                     PySliceFrom(token_router_indices[i][l], -1 * new_tokens)]]
    IN  [k \in {Len(text) * b_idx + (i - 1) : i \in 1..Len(text)} |->
            record((k - Len(text) * b_idx) + 1)]

\* the rest of the loop body of get_pattern_matrices after custom_generate
\* returned: a later write to a key replaces the record held there
ExtractPatterns ==
    /\ pc = "returned"
    /\ task = 1
    /\ pattern_matrices' =
           BatchPatternRecords(Batch(batch_idx), Tokenize(Batch(batch_idx)), ret,
                               batch_idx, max_new_tokens) @@ pattern_matrices
    /\ batch_idx' = batch_idx + 1
    /\ ret' = None
    /\ calls' = <<>>
    /\ pc' = IF batch_idx + 1 < NumBatches(Len(data)) THEN "batch" ELSE "save"
    /\ UNCHANGED <<task, data, max_new_tokens, num_layers, predictor,
                   generated_token_ids, crt_tokens, attention_mask, router_logits, it,
                   past_len, next_token_id, pattern_matrix,
                   file, fileOrigin, tp>>

\* torch.save(pattern_matrices, 'pattern_matrices.pt')
SavePatterns ==
    /\ pc = "save"
    /\ file' = pattern_matrices
    /\ fileOrigin' = "capture"
    /\ pc' = "done"
    /\ UNCHANGED <<task, data, max_new_tokens, num_layers, batch_idx, predictor,
                   generated_token_ids, crt_tokens, attention_mask, router_logits, it,
                   past_len, next_token_id, pattern_matrix, calls, ret,
                   pattern_matrices, tp>>

\* ------------------------------------------- run_benchmark_with_patterns
\* A record in the layout the replay driver reads (the comment at lines
\* 469-478): token_ids is pad + prompt + decode, token_pattern_matrices is
\* one (num_layers, num_experts) 0/1 matrix per position of token_ids that
\* marks the two experts the gate took there.
ReplayRecord(s, prompt_len, decode_len, layers, seed) ==
    LET own == Max(1, prompt_len - (s % 2))     \* unpadded prompt length
        token(p) == IF p <= prompt_len - own THEN Eos
                    ELSE IF p = prompt_len - own + 1 THEN Bos
                    ELSE IF (s + p + seed) % 2 = 0 THEN Word ELSE Eos
        token_ids == [p \in 1..(prompt_len + decode_len) |-> token(p)]
        hot(p, l) == TopK2([src |-> <<s + 1, p - 1>>,
                            logits |-> GateLogits(s + 1 + seed, p - 1, l - 1)]).top
    IN  [prompt_text |-> s + 1,
         prompt_token_ids |-> SubSeq(token_ids, 1, prompt_len),
         token_ids |-> token_ids,
         token_pattern_matrices |->
             [p \in 1..(prompt_len + decode_len) |->
                 [l \in 1..layers |->
                     [e \in 1..NumExperts |->
                         IF hot(p, l)[1] = e - 1 \/ hot(p, l)[2] = e - 1 THEN 1 ELSE 0]]],
         prompt_attention_mask |->
             [p \in 1..prompt_len |-> IF p <= prompt_len - own THEN 0 ELSE 1]]

\* a pattern file in that layout: records 0..n-1 of one shape
ReplayFile(n, prompt_len, decode_len, layers, seed) ==
    [s \in 0..(n - 1) |-> ReplayRecord(s, prompt_len, decode_len, layers, seed)]

\* batch_indices = list(pattern_matrices.keys()) cut into batch_size chunks;
\* batch b (0-based) as the sequence of its records
ReplayBatch(b) ==
    [j \in 1..Min(BatchSize, Cardinality(DOMAIN pattern_matrices) - b * BatchSize) |->
        pattern_matrices[b * BatchSize + j - 1]]

\* elementwise sum of a sequence of (num_layers, num_experts) matrices
RECURSIVE SumMatrices(_, _)
SumMatrices(ms, layers) ==
    IF ms = <<>> THEN [l \in 1..layers |-> [e \in 1..NumExperts |-> 0]]
    ELSE LET rest == SumMatrices(Tail(ms), layers)
         IN  [l \in 1..layers |-> [e \in 1..NumExperts |-> Head(ms)[l][e] + rest[l][e]]]

\* get_batch_data(key, batch): torch.stack over the batch
GetBatchData(key, batch) == [s \in 1..Len(batch) |-> batch[s][key]]

\* prompt_len = len(batch[0]['prompt_token_ids'])
PromptLen(batch) == Len(batch[1].prompt_token_ids)

\* all_pattern_matrices[:, :prompt_len, :, :].sum(0).sum(0)
PrefillPattern(batch) ==
    LET all == GetBatchData("token_pattern_matrices", batch)
    IN  SumMatrices(Concat([s \in 1..Len(batch) |-> PySlice(all[s], 0, PromptLen(batch))]),
                    Len(batch[1].token_pattern_matrices[1]))

\* the position whose stored pattern is read at decode step token_index
PatternIndex_next(batch, token_index) == PromptLen(batch) + token_index
PatternIndex(batch, token_index) == PromptLen(batch) + token_index - 1

\* all_pattern_matrices[:, prompt_len+token_index-1, :, :].sum(0)
DecodePattern(batch, token_index) ==
    LET all == GetBatchData("token_pattern_matrices", batch)
    IN  SumMatrices([s \in 1..Len(batch) |-> all[s][PatternIndex(batch, token_index) + 1]],
                    Len(batch[1].token_pattern_matrices[1]))

\* the position whose stored token is fed at decode step token_index
TokenIndex(batch, token_index) == PromptLen(batch) + token_index - 1

\* all_token_ids[:, prompt_len+token_index-1].view(-1, 1); draw is the last
\* multinomial draw, which the replay loop does not read
DecodeTokens_sampled(batch, token_index, draw) == [s \in 1..Len(batch) |-> <<draw[s]>>]
DecodeTokens(batch, token_index, draw) ==
    LET all == GetBatchData("token_ids", batch)
    IN  [s \in 1..Len(batch) |-> <<all[s][TokenIndex(batch, token_index) + 1]>>]

\* lines 479-488: move the tensors of records 0..len-1 to the device, which
\* reads pattern_matrices[i]['token_ids'] and ['token_pattern_matrices']
ReplaySetup ==
    /\ pc = "replay_setup"
    /\ IF \A i \in 0..(Cardinality(DOMAIN pattern_matrices) - 1) :
              /\ i \in DOMAIN pattern_matrices
              /\ {"token_ids", "token_pattern_matrices"} \subseteq DOMAIN pattern_matrices[i]
       THEN pc' = "replay_batch"
       ELSE pc' = "KeyError"
    /\ batch_idx' = 0
    /\ UNCHANGED <<task, data, max_new_tokens, num_layers, predictor,
                   generated_token_ids, crt_tokens, attention_mask, router_logits, it,
                   past_len, next_token_id, pattern_matrix, calls, ret,
                   pattern_matrices, file, fileOrigin, tp>>

\* enter custom_generate_with_fixed_data(batch, model, max_new_tokens)
CallReplayGenerate ==
    /\ pc = "replay_batch"
    /\ batch_idx < NumBatches(Cardinality(DOMAIN pattern_matrices))
    /\ attention_mask' = None
    /\ generated_token_ids' = None
    /\ crt_tokens' = None
    /\ it' = 0
    /\ past_len' = 0
    /\ calls' = <<>>
    /\ pc' = "replay_loop"
    /\ UNCHANGED <<task, data, max_new_tokens, num_layers, batch_idx, predictor,
                   router_logits, next_token_id, pattern_matrix, ret,
                   pattern_matrices, file, fileOrigin, tp>>

\* lines 421-436: pick this step's pattern and tokens from the records
ReplaySelect ==
    /\ pc = "replay_loop"
    /\ it < max_new_tokens
    /\ LET batch == ReplayBatch(batch_idx)
       IN  IF it = 0
           THEN /\ pattern_matrix' = PrefillPattern(batch)
                /\ crt_tokens' = [s \in 1..Len(batch) |->
                                     PySlice(batch[s].token_ids, 0, PromptLen(batch))]
                /\ generated_token_ids' = crt_tokens'
                /\ attention_mask' = GetBatchData("prompt_attention_mask", batch)
                /\ pc' = "replay_prefetch"
           ELSE IF PatternIndex(batch, it) >= Len(batch[1].token_pattern_matrices)
                   \/ TokenIndex(batch, it) >= Len(batch[1].token_ids)
           THEN /\ pc' = "IndexError"
                /\ UNCHANGED <<pattern_matrix, crt_tokens, generated_token_ids,
                               attention_mask>>
           ELSE /\ pattern_matrix' = DecodePattern(batch, it)
                /\ crt_tokens' = DecodeTokens(batch, it, next_token_id)
                /\ attention_mask' = ExtendMask(attention_mask)
                /\ generated_token_ids' =
                       [s \in 1..Len(batch) |-> generated_token_ids[s] \o crt_tokens'[s]]
                /\ pc' = "replay_prefetch"
    /\ UNCHANGED <<task, data, max_new_tokens, num_layers, batch_idx, predictor,
                   router_logits, it, past_len, next_token_id, calls, ret,
                   pattern_matrices, file, fileOrigin, tp>>

\* prefetch_experts_by_pattern_matrices(model, pattern_matrix): the loop over
\* model.model.layers calls prefetch on the first layer and breaks
PrefetchByPatternCalls(step, pattern) == <<Call("prefetch", step, 0, pattern)>>

ReplayPrefetch_skipped ==
    /\ pc = "replay_prefetch"
    /\ pc' = "replay_forward"
    /\ UNCHANGED <<task, data, max_new_tokens, num_layers, batch_idx, predictor,
                   generated_token_ids, crt_tokens, attention_mask, router_logits, it,
                   past_len, next_token_id, pattern_matrix, calls, ret,
                   pattern_matrices, file, fileOrigin, tp>>

\* lines 437-439: the prefetch call is made and returns
ReplayPrefetch ==
    /\ pc = "replay_prefetch"
    /\ calls' = calls \o PrefetchByPatternCalls(it, pattern_matrix)
    /\ pc' = "replay_forward"
    /\ UNCHANGED <<task, data, max_new_tokens, num_layers, batch_idx, predictor,
                   generated_token_ids, crt_tokens, attention_mask, router_logits, it,
                   past_len, next_token_id, pattern_matrix, ret,
                   pattern_matrices, file, fileOrigin, tp>>

\* lines 440-464: the forward pass and the draw, whose result is dropped
ReplayForward ==
    /\ pc = "replay_forward"
    /\ calls' = Append(calls, Call("forward", it, -1,
                                   [input_ids |-> crt_tokens,
                                    attention_mask |-> attention_mask]))
    /\ past_len' = past_len + Len(crt_tokens[1])
    /\ next_token_id' \in [1..Len(crt_tokens) -> Samplable]
    /\ it' = it + 1
    /\ pc' = "replay_loop"
    /\ UNCHANGED <<task, data, max_new_tokens, num_layers, batch_idx, predictor,
                   generated_token_ids, crt_tokens, attention_mask, router_logits,
                   pattern_matrix, ret, pattern_matrices, file, fileOrigin, tp>>

\* return generated_token_ids, and lines 495-497 of the caller:
\* generated_token_ids.numel() of the None a loop of no iteration returns
ReplayReturn ==
    /\ pc = "replay_loop"
    /\ it >= max_new_tokens
    /\ ret' = [generated_token_ids |-> generated_token_ids, router_logits |-> <<>>]
    /\ batch_idx' = batch_idx + 1
    /\ pc' = IF it = 0 THEN "AttributeError"
             ELSE IF batch_idx + 1 < NumBatches(Cardinality(DOMAIN pattern_matrices))
             THEN "replay_batch" ELSE "done"
    /\ UNCHANGED <<task, data, max_new_tokens, num_layers, predictor,
                   generated_token_ids, crt_tokens, attention_mask, router_logits, it,
                   past_len, next_token_id, pattern_matrix, calls,
                   pattern_matrices, file, fileOrigin, tp>>

\* --------------------------- notebooks/benchmark_single_gpu_switch.py
Pad == "<pad>"         \* token id 0: the pad token and the decoder start token

\* the token ids the Switch tokenizer gives prompt g: words, then Eos
SwitchPromptTokens(g) == [k \in 1..data[g] |-> IF k = data[g] THEN Eos ELSE Word]

\* tokenizer(batch, padding=True): the T5 tokenizer pads on the right
SwitchTokenize(batch) ==
    LET L == CHOOSE m \in 0..MaxPromptLen + 1 :
                 /\ \A i \in 1..Len(batch) : data[batch[i]] <= m
                 /\ \E i \in 1..Len(batch) : data[batch[i]] = m
        pad(i) == [k \in 1..(L - data[batch[i]]) |-> Pad]
        zeros(i) == [k \in 1..(L - data[batch[i]]) |-> 0]
        ones(i) == [k \in 1..data[batch[i]] |-> 1]
    IN  [input_ids |-> [i \in 1..Len(batch) |-> SwitchPromptTokens(batch[i]) \o pad(i)],
         attention_mask |-> [i \in 1..Len(batch) |-> ones(i) \o zeros(i)]]

\* for step in range(max_new_tokens)
SwitchIterations(n) == n

\* outputs of one forward pass of the Switch model, as far as custom_generate
\* reads them.  The prefill pass (step 0) runs the encoder over input_ids; a
\* decode pass is given encoder_outputs and hands back its router_probs as
\* encoder_router_logits.  Every pass runs the decoder over the
\* decoder_input_ids it is fed, on top of the cached positions.
SwitchOutputs(step, samples, input_ids, decoder_input_ids, past, encoder_outputs) ==
    [encoder_router_logits |->
         IF step = 0 THEN ModelRouterLogits(samples, input_ids, 0, num_layers)
         ELSE encoder_outputs.router_probs,
     decoder_router_logits |->
         ModelRouterLogits(samples, decoder_input_ids, past, num_layers)]

\* main of the Switch benchmark: task 0 is run_benchmark; the functions the
\* other tasks name are not defined in the file
StartSwitchTask ==
    /\ pc = "sw_main"
    /\ pc' = IF task = 0 THEN "sw_batch" ELSE "NameError"
    /\ batch_idx' = 0
    /\ UNCHANGED <<task, data, max_new_tokens, num_layers, predictor,
                   generated_token_ids, crt_tokens, attention_mask, router_logits, it,
                   past_len, next_token_id, pattern_matrix, calls, ret,
                   pattern_matrices, file, fileOrigin, tp>>

\* run_benchmark, loop head: tokenize the batch, start the decoder input with
\* one zero per sample and enter custom_generate; crt_tokens holds
\* decoder_input_ids, generated_token_ids the list generated_tokens
CallSwitchGenerate ==
    /\ pc = "sw_batch"
    /\ batch_idx < NumBatches(Len(data))
    /\ attention_mask' = SwitchTokenize(Batch(batch_idx)).attention_mask
    /\ crt_tokens' = [i \in 1..Len(Batch(batch_idx)) |-> <<Pad>>]
    /\ generated_token_ids' = <<>>
    /\ router_logits' = <<>>
    /\ it' = 0
    /\ past_len' = 0
    /\ calls' = <<>>
    /\ pc' = "sw_loop"
    /\ UNCHANGED <<task, data, max_new_tokens, num_layers, batch_idx, predictor,
                   next_token_id, pattern_matrix, ret, pattern_matrices, file,
                   fileOrigin, tp>>

\* one iteration of the loop of custom_generate: the prefill or decode forward
\* pass, the draw, and the growth of generated_tokens and decoder_input_ids;
\* router_logits holds the routing logs of outputs, the last pass's result
SwitchGenStep ==
    /\ pc = "sw_loop"
    /\ it < SwitchIterations(max_new_tokens)
    /\ \E draw \in [1..Len(crt_tokens) -> Samplable] :
        LET input_ids == SwitchTokenize(Batch(batch_idx)).input_ids
            encoder_outputs ==
                IF it = 0 THEN None
                ELSE [router_probs |-> router_logits.encoder_router_logits]
            outputs == SwitchOutputs(it, Batch(batch_idx), input_ids, crt_tokens,
                                     past_len, encoder_outputs)
        IN  /\ calls' = Append(calls,
                   Call("forward", it, -1,
                        [input_ids |-> IF it = 0 THEN input_ids ELSE None,
                         attention_mask |-> IF it = 0 THEN attention_mask ELSE None,
                         decoder_input_ids |-> crt_tokens,
                         outputs |-> outputs]))
            /\ router_logits' = outputs
            /\ past_len' = past_len + Len(crt_tokens[1])
            /\ next_token_id' = draw
            /\ generated_token_ids' = Append(generated_token_ids, draw)
            /\ crt_tokens' = [i \in 1..Len(crt_tokens) |-> Append(crt_tokens[i], draw[i])]
    /\ it' = it + 1
    /\ UNCHANGED <<task, pc, data, max_new_tokens, num_layers, batch_idx, predictor,
                   attention_mask, pattern_matrix, ret, pattern_matrices, file,
                   fileOrigin, tp>>

\* return torch.cat(generated_tokens, dim=-1), (outputs.encoder_router_logits,
\* outputs.decoder_router_logits); torch.cat of the empty list a loop of no
\* iteration leaves raises
SwitchGenReturn ==
    /\ pc = "sw_loop"
    /\ it >= SwitchIterations(max_new_tokens)
    /\ IF generated_token_ids = <<>>
       THEN /\ pc' = "RuntimeError"
            /\ UNCHANGED <<ret, generated_token_ids, crt_tokens, attention_mask,
                           router_logits, it, past_len, next_token_id>>
       ELSE /\ ret' = [generated_token_ids |->
                          [i \in 1..Len(crt_tokens) |->
                              [s \in 1..Len(generated_token_ids) |->
                                  generated_token_ids[s][i]]],
                       router_logits |-> <<router_logits.encoder_router_logits,
                                           router_logits.decoder_router_logits>>]
            /\ generated_token_ids' = None
            /\ crt_tokens' = None
            /\ attention_mask' = None
            /\ router_logits' = <<>>
            /\ it' = 0
            /\ past_len' = 0
            /\ next_token_id' = None
            /\ pc' = "sw_returned"
    /\ UNCHANGED <<task, data, max_new_tokens, num_layers, batch_idx, predictor,
                   pattern_matrix, calls, pattern_matrices, file, fileOrigin, tp>>

\* run_benchmark: the rest of the loop body counts the returned tokens
SwitchNextBatch ==
    /\ pc = "sw_returned"
    /\ batch_idx' = batch_idx + 1
    /\ ret' = None
    /\ calls' = <<>>
    /\ pc' = IF batch_idx + 1 < NumBatches(Len(data)) THEN "sw_batch" ELSE "sw_done"
    /\ UNCHANGED <<task, data, max_new_tokens, num_layers, predictor,
                   generated_token_ids, crt_tokens, attention_mask, router_logits, it,
                   past_len, next_token_id, pattern_matrix,
                   pattern_matrices, file, fileOrigin, tp>>

\* ------------------------------------------------------------------ main
\* args.task is 0, 1 or 3: run_benchmark, get_pattern_matrices or
\* run_benchmark_with_predictor (handed predictor = ...) over batches
StartGenerateTask ==
    /\ pc = "main"
    /\ task \in {0, 1, 3}
    /\ pattern_matrices' = <<>>
    /\ batch_idx' = 0
    /\ pc' = "batch"
    /\ UNCHANGED <<task, data, max_new_tokens, num_layers, predictor,
                   generated_token_ids, crt_tokens, attention_mask, router_logits, it,
                   past_len, next_token_id, pattern_matrix, calls, ret,
                   file, fileOrigin, tp>>

\* args.task is 2: pattern_matrices = torch.load(args.pattern_matrices_path)
StartReplayTask ==
    /\ pc = "main"
    /\ task = 2
    /\ pattern_matrices' = file
    /\ pc' = "replay_setup"
    /\ UNCHANGED <<task, data, max_new_tokens, num_layers, batch_idx, predictor,
                   generated_token_ids, crt_tokens, attention_mask, router_logits, it,
                   past_len, next_token_id, pattern_matrix, calls, ret,
                   file, fileOrigin, tp>>

\* the program is run again with --task 2 and the default
\* --pattern_matrices_path, the file the capture run has just written
RunReplayOnCapturedFile ==
    /\ pc = "done"
    /\ task = 1
    /\ task' = 2
    /\ pc' = "main"
    /\ UNCHANGED <<data, max_new_tokens, num_layers, batch_idx, predictor,
                   generated_token_ids, crt_tokens, attention_mask, router_logits, it,
                   past_len, next_token_id, pattern_matrix, calls, ret,
                   pattern_matrices, file, fileOrigin, tp>>

\* the locals of the loops before any loop has run
NoLoopYet ==
    /\ batch_idx = 0
    /\ predictor = None
    /\ generated_token_ids = None
    /\ crt_tokens = None
    /\ attention_mask = None
    /\ router_logits = <<>>
    /\ it = 0
    /\ past_len = 0
    /\ next_token_id = None
    /\ pattern_matrix = None
    /\ calls = <<>>
    /\ ret = None
    /\ pattern_matrices = <<>>

\* either program is started: pc = "main" is the Mixtral benchmark,
\* pc = "sw_main" the Switch benchmark
Init ==
    /\ pc \in {"main", "sw_main"}
    /\ task \in {0, 1, 2, 3}
    /\ max_new_tokens \in 0..MaxNewTokens
    /\ num_layers \in 1..MaxLayers
    /\ IF task = 2 /\ pc = "main"
       THEN /\ data = <<1>>
            /\ fileOrigin = "external"
            /\ \E n \in 1..MaxSamples, prompt_len \in 1..MaxPromptLen,
                  decode_len \in 0..MaxNewTokens, seed \in 0..1 :
                   file = ReplayFile(n, prompt_len, decode_len, num_layers, seed)
       ELSE /\ data \in Datasets
            /\ fileOrigin = "none"
            /\ file = <<>>
    /\ NoLoopYet
    /\ tp = Idle

Next ==
    \/ StartGenerateTask
    \/ CallCustomGenerate
    \/ GenStep
    \/ GenReturn
    \/ BenchmarkNextBatch
    \/ ExtractPatterns
    \/ SavePatterns
    \/ RunReplayOnCapturedFile
    \/ StartReplayTask
    \/ ReplaySetup
    \/ CallReplayGenerate
    \/ ReplaySelect
    \/ ReplayPrefetch
    \/ ReplayForward
    \/ ReplayReturn
    \/ StartSwitchTask
    \/ CallSwitchGenerate
    \/ SwitchGenStep
    \/ SwitchGenReturn
    \/ SwitchNextBatch

Spec == Init /\ [][Next]_vars

\* task 0 alone: run_benchmark over the batches
InitBaseline == Init /\ pc = "main" /\ task = 0

NextBaseline ==
    \/ StartGenerateTask
    \/ CallCustomGenerate
    \/ GenStep
    \/ GenReturn
    \/ BenchmarkNextBatch

SpecBaseline == InitBaseline /\ [][NextBaseline]_vars

\* task 2 alone, on a pattern file in the layout the replay driver reads
InitReplay == Init /\ pc = "main" /\ task = 2

NextReplay ==
    \/ StartReplayTask
    \/ ReplaySetup
    \/ CallReplayGenerate
    \/ ReplaySelect
    \/ ReplayPrefetch
    \/ ReplayForward
    \/ ReplayReturn

SpecReplay == InitReplay /\ [][NextReplay]_vars

\* the Switch benchmark alone
InitSwitch == Init /\ pc = "sw_main"

NextSwitch ==
    \/ StartSwitchTask
    \/ CallSwitchGenerate
    \/ SwitchGenStep
    \/ SwitchGenReturn
    \/ SwitchNextBatch

SpecSwitch == InitSwitch /\ [][NextSwitch]_vars

\* ------------------------------------- top_p_filtering on its own inputs
TopPRows == UNION {[1..n -> 1..MaxWeight] : n \in 1..TopPMaxLen}

InitTopP ==
    /\ pc = "top_p"
    /\ task = 0
    /\ max_new_tokens = 0
    /\ num_layers = 1
    /\ data = <<1>>
    /\ fileOrigin = "none"
    /\ file = <<>>
    /\ NoLoopYet
    /\ \E row \in TopPRows, k \in 1..TopPDen :
           tp = [pc |-> "call", logits |-> row, num |-> k, den |-> TopPDen]

\* top_p_filtering(logits, top_p) on one row
TopPFilteringCall ==
    /\ tp.pc = "call"
    /\ \E p \in SortedIndices(tp.logits) :
           tp' = [pc |-> "done", logits |-> tp.logits, num |-> tp.num, den |-> tp.den,
                  sorted_indices |-> p,
                  out |-> TopPFiltering(tp.logits, tp.num, tp.den, p)]
    /\ UNCHANGED <<task, pc, data, max_new_tokens, num_layers, batch_idx, predictor,
                   generated_token_ids, crt_tokens, attention_mask, router_logits, it,
                   past_len, next_token_id, pattern_matrix, calls, ret,
                   pattern_matrices, file, fileOrigin>>

NextTopP == TopPFilteringCall

SpecTopP == InitTopP /\ [][NextTopP]_vars

\* ================================================================ claims
Forwards == SelectSeq(calls, LAMBDA c : c.op = "forward")
Ones(n) == [k \in 1..n |-> 1]

\* C1: custom_generate with max_new_tokens = N ends after exactly N+1 forward
\* evaluations: one over the whole prompt, then N over one token per sample,
\* whatever tokens were drawn; while it runs it has made one forward per
\* completed iteration and never more than N+1.
C1_ForwardCount ==
    /\ pc = "gen_loop" => Len(Forwards) = it /\ it <= max_new_tokens + 1
    /\ pc = "returned" =>
           /\ Len(Forwards) = max_new_tokens + 1
           /\ Forwards[1].arg.input_ids = Tokenize(Batch(batch_idx)).input_ids
           /\ \A k \in 2..Len(Forwards) :
                  \A i \in 1..Len(Forwards[k].arg.input_ids) :
                      Len(Forwards[k].arg.input_ids[i]) = 1

\* C1 witness: a call with N = MaxNewTokens has returned although the first
\* token drawn for a sample was the end-of-sequence token
C1_Witness ==
    /\ pc = "returned"
    /\ max_new_tokens = MaxNewTokens
    /\ \E i \in 1..Len(ret.generated_token_ids) :
           ret.generated_token_ids[i][Len(Tokenize(Batch(batch_idx)).input_ids[i]) + 1] = Eos

\* C2: custom_generate returns, for every sample, a token sequence of length
\* L + N, L the padded prompt length and N = max_new_tokens.
C2_ReturnedLength ==
    pc = "returned" =>
        \A i \in 1..Len(ret.generated_token_ids) :
            Len(ret.generated_token_ids[i])
                = Len(Tokenize(Batch(batch_idx)).input_ids[i]) + max_new_tokens

\* C3: at every iteration boundary of custom_generate the attention mask is
\* the input mask followed by one 1 per completed iteration, and it is as
\* long as the generated token sequence.
C3_MaskGrowth ==
    pc = "gen_loop" =>
        \A i \in 1..Len(attention_mask) :
            /\ attention_mask[i] = Tokenize(Batch(batch_idx)).attention_mask[i] \o Ones(it)
            /\ Len(attention_mask[i]) = Len(generated_token_ids[i])

\* C3 witness: two iterations are complete on a batch with a padded sample
C3_Witness ==
    /\ pc = "gen_loop"
    /\ it >= 2
    /\ \E i \in 1..Len(attention_mask) : attention_mask[i][1] = 0

\* C4: in the replay loop every forward pass comes right after a prefetch call
\* of the same step, and when a forward pass is about to start the prefetch
\* call carrying this step's pattern has been made and has returned.
C4_PrefetchBeforeForward ==
    /\ \A k \in 1..Len(calls) :
           calls[k].op = "forward" =>
               /\ k > 1
               /\ calls[k - 1].op = "prefetch"
               /\ calls[k - 1].step = calls[k].step
    /\ pc = "replay_forward" =>
           /\ calls # <<>>
           /\ calls[Len(calls)] = Call("prefetch", it, 0, pattern_matrix)
    /\ pc \in {"replay_loop", "replay_prefetch", "replay_forward"} =>
           /\ Len(Forwards) = it
           /\ \A k \in 1..Len(Forwards) : Forwards[k].step = k - 1

\* C4 witness: the prefill step and a decode step have both made their forward pass
C4_Witness ==
    /\ pc = "replay_loop"
    /\ it >= 2
    /\ Len(Forwards) >= 2

\* the dataset sample a captured record was written for, its batch, the padded
\* prompt length of that batch and the sample's pad length
RecordBatch(rec) == (rec.prompt_text - 1) \div BatchSize
RecordPaddedLen(rec) == Len(Tokenize(Batch(RecordBatch(rec))).input_ids[1])
RecordPadLen(rec) == RecordPaddedLen(rec) - data[rec.prompt_text]
Captured == fileOrigin # "external" /\ task = 1

\* C5: every record written by get_pattern_matrices has len(prompt_pattern)
\* equal to the sample's unpadded prompt length and len(decode_pattern) equal
\* to max_new_tokens.
C5_PatternLengths ==
    Captured =>
        \A k \in DOMAIN pattern_matrices :
            /\ Len(pattern_matrices[k].prompt_pattern) = data[pattern_matrices[k].prompt_text]
            /\ Len(pattern_matrices[k].decode_pattern) = max_new_tokens

\* C6: every routing decision get_pattern_matrices stores for a sample, at a
\* kept prompt position or at a decode position, in any layer, is the top-2
\* of the gate logits the model put out for that sample's own token at that
\* position in that layer.
C6_OwnRouting ==
    Captured =>
        \A k \in DOMAIN pattern_matrices :
            LET rec == pattern_matrices[k]
                g == rec.prompt_text
                own(entry, p, l) ==
                    /\ entry.src = <<g, p>>
                    /\ entry.top = TopK2([src |-> <<g, p>>,
                                          logits |-> GateLogits(g, p, l - 1)]).top
            IN  /\ \A l \in 1..Len(rec.prompt_pattern) :
                       \A j \in 1..Len(rec.prompt_pattern[l]) :
                           own(rec.prompt_pattern[l][j], RecordPadLen(rec) + j - 1, l)
                /\ max_new_tokens > 0 =>
                       \A l \in 1..Len(rec.decode_pattern) :
                           \A j \in 1..Len(rec.decode_pattern[l]) :
                               own(rec.decode_pattern[l][j], RecordPaddedLen(rec) + j - 1, l)

\* C7: replay of the pattern file a capture run wrote goes through without error.
C7_RoundTrip ==
    fileOrigin = "capture" => pc \notin {"KeyError", "IndexError", "AttributeError"}

\* the records of the batch the replay loop is running, and of the batch it
\* has just returned from
RunningBatch == ReplayBatch(batch_idx)
ReturnedBatch == ReplayBatch(batch_idx - 1)
InReplayLoop == pc \in {"replay_loop", "replay_prefetch", "replay_forward", "IndexError"}

\* the stored tokens of step t: the first prompt_len tokens at the prefill
\* step, the one token at position prompt_len + t - 1 at decode step t
StoredStepTokens(batch, t) ==
    [s \in 1..Len(batch) |->
        IF t = 0 THEN SubSeq(batch[s].token_ids, 1, Len(batch[1].prompt_token_ids))
        ELSE <<batch[s].token_ids[Len(batch[1].prompt_token_ids) + t]>>]

\* C8: in replay the tokens fed to every forward pass, and the token ids
\* returned, are the stored ones whatever the sampler drew: step t is fed the
\* stored tokens of step t, and the loop returns the stored tokens of the
\* steps it ran.
C8_StoredTokensOnly ==
    /\ InReplayLoop =>
           \A k \in 1..Len(Forwards) :
               Forwards[k].arg.input_ids = StoredStepTokens(RunningBatch, Forwards[k].step)
    /\ (pc \in {"replay_batch", "done"} /\ batch_idx > 0) =>
           ret.generated_token_ids =
               [s \in 1..Len(ReturnedBatch) |->
                   SubSeq(ReturnedBatch[s].token_ids, 1,
                          Len(ReturnedBatch[1].prompt_token_ids) + max_new_tokens - 1)]

\* C8 witness: a decode forward pass is about to be fed a stored token that is
\* not the token the sampler drew in the step before
C8_Witness ==
    /\ pc = "replay_forward"
    /\ it >= 1
    /\ \E s \in 1..Len(crt_tokens) : crt_tokens[s] # <<next_token_id[s]>>

\* the sum over the samples of the batch and the positions from..to (1-based)
\* of the stored pattern entry of layer l and expert e
StoredCount(batch, from, to, l, e) ==
    SumSeq([s \in 1..Len(batch) |->
               SumSeq([p \in 1..(to - from + 1) |->
                          batch[s].token_pattern_matrices[from + p - 1][l][e]])])

\* C9: the pattern handed to prefetch is a (num_layers, num_experts) matrix;
\* at the prefill step it is the sum of the stored patterns over the samples
\* and the positions before prompt_len, at decode step t the sum over the
\* samples of the stored pattern at position prompt_len + t - 1, the position
\* of the token the forward pass of that step is fed.
C9_PrefetchPattern ==
    InReplayLoop =>
        \A k \in 1..Len(calls) :
            calls[k].op = "prefetch" =>
                LET t == calls[k].step
                    prompt_len == Len(RunningBatch[1].prompt_token_ids)
                    from == IF t = 0 THEN 1 ELSE prompt_len + t
                    to == IF t = 0 THEN prompt_len ELSE prompt_len + t
                IN  /\ DOMAIN calls[k].arg = 1..num_layers
                    /\ \A l \in 1..num_layers :
                           /\ DOMAIN calls[k].arg[l] = 1..NumExperts
                           /\ \A e \in 1..NumExperts :
                                  calls[k].arg[l][e] = StoredCount(RunningBatch, from, to, l, e)
                    /\ (t >= 1 /\ k < Len(calls)) =>
                           calls[k + 1].arg.input_ids =
                               [s \in 1..Len(RunningBatch) |->
                                   <<RunningBatch[s].token_ids[to]>>]

\* C9 witness: a batch of two samples has made the prefetch call of a decode step
C9_Witness ==
    /\ pc = "replay_forward"
    /\ it >= 1
    /\ Len(RunningBatch) >= 2
    /\ calls[Len(calls)].op = "prefetch"

\* the filtered row of a finished top_p_filtering call leaves finite exactly
\* the first n tokens of the order the sort returned
KeepsPrefix(n) ==
    {i \in 1..Len(tp.out) : tp.out[i] # NegInf} = {tp.sorted_indices[j] : j \in 1..n}

\* the weight of the first j tokens in sorted order, out of TotalWeight
PrefixWeight(j) == SumSeq([k \in 1..j |-> tp.logits[tp.sorted_indices[k]]])
TotalWeight == SumSeq(tp.logits)

\* C10 as stated: top_p_filtering leaves finite exactly the tokens of the
\* smallest prefix whose cumulative probability is >= top_p.
C10_SmallestPrefixAtLeast ==
    tp.pc = "done" =>
        KeepsPrefix(CHOOSE n \in 1..Len(tp.logits) :
                        /\ PrefixWeight(n) * tp.den >= tp.num * TotalWeight
                        /\ \A m \in 1..(n - 1) :
                               PrefixWeight(m) * tp.den < tp.num * TotalWeight)

\* C10 amended: top_p_filtering leaves finite, and unchanged, exactly the
\* tokens of the smallest prefix whose cumulative probability is strictly
\* greater than top_p, the whole row when no prefix exceeds top_p; every other
\* token becomes negative infinity.
C10_SmallestPrefixAbove ==
    tp.pc = "done" =>
        /\ KeepsPrefix(CHOOSE n \in 1..Len(tp.logits) :
                           /\ \/ PrefixWeight(n) * tp.den > tp.num * TotalWeight
                              \/ n = Len(tp.logits)
                           /\ \A m \in 1..(n - 1) :
                                  PrefixWeight(m) * tp.den <= tp.num * TotalWeight)
        /\ \A i \in 1..Len(tp.out) : tp.out[i] \in {NegInf, tp.logits[i]}

\* C10 witness: a prefix's cumulative probability equals top_p exactly, and a
\* token was removed
C10_Witness ==
    /\ tp.pc = "done"
    /\ \E j \in 1..Len(tp.logits) : PrefixWeight(j) * tp.den = tp.num * TotalWeight
    /\ \E i \in 1..Len(tp.out) : tp.out[i] = NegInf

\* C11: for every row and every top_p in (0, 1), top_p_filtering leaves at
\* least one entry finite: the first token of the sorted order, a token of the
\* highest probability in the row, keeps its logit, also when its probability
\* alone is above top_p.
C11_KeepsTopToken ==
    (tp.pc = "done" /\ tp.num < tp.den) =>
        /\ \E i \in 1..Len(tp.out) : tp.out[i] # NegInf
        /\ tp.out[tp.sorted_indices[1]] = tp.logits[tp.sorted_indices[1]]
        /\ tp.out[tp.sorted_indices[1]] # NegInf
        /\ \A i \in 1..Len(tp.logits) : tp.logits[tp.sorted_indices[1]] >= tp.logits[i]

\* C11 witness: the probability of the top token alone is above top_p < 1 in a
\* row of several tokens, and every other token was removed
C11_Witness ==
    /\ tp.pc = "done"
    /\ tp.num < tp.den
    /\ Len(tp.logits) >= 2
    /\ PrefixWeight(1) * tp.den > tp.num * TotalWeight
    /\ \A j \in 2..Len(tp.logits) : tp.out[tp.sorted_indices[j]] = NegInf

\* C12: with top_p = 1.0 top_p_filtering sets no entry to negative infinity:
\* the row it returns is the row it was given.
C12_TopPOneIsNoOp ==
    (tp.pc = "done" /\ tp.num = tp.den) =>
        /\ tp.out = tp.logits
        /\ \A i \in 1..Len(tp.out) : tp.out[i] # NegInf

\* C12 witness: a call with top_p = 1.0 on a row of the greatest length whose
\* tokens do not all have the same probability has returned
C12_Witness ==
    /\ tp.pc = "done"
    /\ tp.num = tp.den
    /\ Len(tp.logits) = TopPMaxLen
    /\ \E i, j \in 1..Len(tp.logits) : tp.logits[i] # tp.logits[j]

\* C13: under task 3 every forward pass of the generation loop is preceded, in
\* the same step, by a predictor-driven prefetch call: custom_generate runs
\* with the predictor it was handed and calls prefetch_experts_by_predictor
\* before each forward.
C13_PredictorPrefetch ==
    task = 3 =>
        /\ pc = "gen_loop" => predictor # None
        /\ \A k \in 1..Len(calls) :
               calls[k].op = "forward" =>
                   /\ k > 1
                   /\ calls[k - 1].op = "prefetch"
                   /\ calls[k - 1].step = calls[k].step

\* the layers prefetch was called on in step t, in call order
PrefetchedLayers(t) ==
    LET made == SelectSeq(calls, LAMBDA c : c.op = "prefetch" /\ c.step = t)
    IN  [k \in 1..Len(made) |-> made[k].layer]

\* C14: when the prefetch of a step has been issued, on the replay path and on
\* the predictor path alike, prefetch has been called exactly once on every
\* MoE layer, in ascending layer order, before the forward pass of the step.
C14_EveryLayerInOrder ==
    \A k \in 1..Len(calls) :
        calls[k].op = "forward" =>
            (PrefetchedLayers(calls[k].step) # <<>> =>
                 /\ PrefetchedLayers(calls[k].step) = [l \in 1..num_layers |-> l - 1]
                 /\ \A j \in 1..Len(calls) :
                        (calls[j].op = "prefetch" /\ calls[j].step = calls[k].step) => j < k)

\* the rows of a routing log of one layer, as a set
Rows(log) == {log[j] : j \in 1..Len(log)}

\* C15: the encoder and decoder routing logs the Switch custom_generate
\* returns contain, layer by layer, the routing logits of every forward pass
\* of the call, the prefill pass and every decode pass.
C15_SwitchEveryPassLogged ==
    pc = "sw_returned" =>
        \A k \in 1..Len(Forwards) :
            \A l \in 1..num_layers :
                /\ Rows(Forwards[k].arg.outputs.encoder_router_logits[l])
                       \subseteq Rows(ret.router_logits[1][l])
                /\ Rows(Forwards[k].arg.outputs.decoder_router_logits[l])
                       \subseteq Rows(ret.router_logits[2][l])

\* C16: during a capture run every record index is written at most once and
\* every input sample gets an index of its own: after each batch the mapping
\* holds one record per sample processed so far, and after the run exactly as
\* many records as there are input samples, one for each of them.
C16_OneRecordPerSample ==
    (Captured /\ pc \in {"batch", "save", "done"}) =>
        /\ Cardinality(DOMAIN pattern_matrices) = Min(BatchSize * batch_idx, Len(data))
        /\ \A g \in 1..Min(BatchSize * batch_idx, Len(data)) :
               \E k \in DOMAIN pattern_matrices : pattern_matrices[k].prompt_text = g

\* C17: in every record written with max_new_tokens = N, N at least 1,
\* decode_ids holds the first N tokens generated for the sample, and for each
\* k in 0..N-1 the routing decision stored at decode position k, in every
\* layer, is the one the model took when it processed that k-th generated
\* token of the sample.
C17_DecodeAlignment ==
    [][(pc = "returned" /\ task = 1 /\ max_new_tokens > 0) =>
          \A i \in 1..Len(ret.generated_token_ids) :
              LET rec == pattern_matrices'[Len(Batch(batch_idx)) * batch_idx + (i - 1)]
                  L == Len(Tokenize(Batch(batch_idx)).input_ids[i])
                  g == Batch(batch_idx)[i]
              IN  /\ rec.decode_ids =
                         SubSeq(ret.generated_token_ids[i], L + 1, L + max_new_tokens)
                  /\ \A l \in 1..num_layers :
                         /\ l \in DOMAIN rec.decode_pattern
                         /\ Len(rec.decode_pattern[l]) = max_new_tokens
                         /\ \A k \in 1..Len(rec.decode_pattern[l]) :
                                /\ rec.decode_pattern[l][k].src = <<g, L + k - 1>>
                                /\ rec.decode_pattern[l][k].top =
                                       TopK2([src |-> <<g, L + k - 1>>,
                                              logits |-> GateLogits(g, L + k - 1, l - 1)]).top
      ]_vars

\* C18: for the same max_new_tokens = N the three generation loops, the
\* Mixtral custom_generate, the replay custom_generate_with_fixed_data and the
\* Switch custom_generate, each end after N+1 forward evaluations.
C18_SameForwardCount ==
    /\ pc = "returned" => Len(Forwards) = max_new_tokens + 1
    /\ (task = 2 /\ batch_idx > 0 /\ pc \in {"replay_batch", "done", "AttributeError"}) =>
           Len(Forwards) = max_new_tokens + 1
    /\ pc = "sw_returned" => Len(Forwards) = max_new_tokens + 1
====
